---- MODULE Spec2Model ----
(***************************************************************************)
(* Model of sitecustomize.py: the import logger.  The module-level code    *)
(* reads the environment, resolves the log file, builds one ImportLogger   *)
(* (which attaches handlers to the shared 'importlogger' logger and logs   *)
(* a startup message) and registers it at the front of sys.meta_path.      *)
(* After that the interpreter calls find_spec / find_module for imports.   *)
(*                                                                         *)
(* Python strings are sequences of one-character strings, so that          *)
(* str.split and str.lower are computed rather than assumed.  An optional  *)
(* value (os.environ.get without default, path=None) is a sequence of      *)
(* length at most one: None is <<>>, a present value v is <<v>>.           *)
(* A log line is modelled by its message: the '%(asctime)s: ' prefix the   *)
(* Formatter adds is the same for every handler and is left out.           *)
(***************************************************************************)
EXTENDS Integers, Sequences, FiniteSets, TLC

VARIABLES
    env,        \* os.environ and the outside world, fixed for the process
    pc,         \* position of the module-level script
    LOGFILE,    \* module global LOGFILE (lines 68-75)
    created,    \* files the process has created
    handlers,   \* logger.handlers of logging.getLogger('importlogger')
    out,        \* out[i]: the messages handler i has emitted, in order
    meta_path,  \* the ImportLogger entries of sys.meta_path, first first
    nobs,       \* ImportLogger instances constructed so far
    calls,      \* hook calls made so far
    last        \* arguments and return value of the latest hook call

vars == <<env, pc, LOGFILE, created, handlers, out, meta_path, nobs, calls, last>>

MaxCalls == 2
MaxObservers == 2

None == <<>>
Some(v) == <<v>>
Range(s) == {s[i] : i \in DOMAIN s}

(* ---------------------------------------------------------------- text *)

sFile     == <<"f","i","l","e">>
sStderr   == <<"s","t","d","e","r","r">>
sServer   == <<"s","e","r","v","e","r">>
sPython   == <<"p","y","t","h","o","n">>
sNone     == <<"N","o","n","e">>
sComma    == ","

UpperToLower ==
    [A |-> "a", B |-> "b", C |-> "c", D |-> "d", E |-> "e", F |-> "f", G |-> "g",
     H |-> "h", I |-> "i", J |-> "j", K |-> "k", L |-> "l", M |-> "m", N |-> "n",
     O |-> "o", P |-> "p", Q |-> "q", R |-> "r", S |-> "s", T |-> "t", U |-> "u",
     V |-> "v", W |-> "w", X |-> "x", Y |-> "y", Z |-> "z"]

\* HANDLERS split without .lower()
LowerMissing(s) == s

\* str.lower()
Lower(s) == [i \in DOMAIN s |-> IF s[i] \in DOMAIN UpperToLower THEN UpperToLower[s[i]] ELSE s[i]]

\* str.split(sep) with an explicit one-character separator: ''.split(',') is ['']
RECURSIVE Split(_, _)
Split(s, sep) ==
    IF \A i \in DOMAIN s : s[i] # sep
    THEN <<s>>
    ELSE LET i == CHOOSE k \in DOMAIN s : s[k] = sep /\ \A j \in 1..(k-1) : s[j] # sep
         IN  <<SubSeq(s, 1, i-1)>> \o Split(SubSeq(s, i+1, Len(s)), sep)

DigitValue == ("0" :> 0) @@ ("1" :> 1) @@ ("2" :> 2) @@ ("3" :> 3) @@ ("4" :> 4) @@
              ("5" :> 5) @@ ("6" :> 6) @@ ("7" :> 7) @@ ("8" :> 8) @@ ("9" :> 9)

RECURSIVE DigitsValue(_)
DigitsValue(s) ==
    IF s = <<>> THEN 0 ELSE 10 * DigitsValue(SubSeq(s, 1, Len(s)-1)) + DigitValue[s[Len(s)]]

\* int(s) for a string of characters: Some(n), or None for ValueError
ParseInt(s) ==
    IF s # <<>> /\ \A i \in DOMAIN s : s[i] \in DOMAIN DigitValue
    THEN Some(DigitsValue(s))
    ELSE None

(* --------------------------------------------------- the environment *)

sHost      == <<"h">>
sPort      == <<"5","1","4">>
sBadPort   == <<"u","d","p">>
sJob       == <<"7">>
sHome      == <<"/","p">>
sContainer == <<"c">>
sExplicit  == <<"/","x">>
sMixedCase == <<"S","t","d","e","r","r",",","F","I","L","E">>
sSrvFirst  == sServer \o <<",">> \o sStderr
sUnknown   == sFile \o <<",","t","t","y",",">> \o sServer
sLibAB     == <<"a",",","b">>

\* A message template as string.Formatter.parse reads it: (literal_text, field_name)
\* pairs, field "" where the literal is followed by no replacement field.
Seg(lit, field) == [lit |-> lit, field |-> field]
tCustom == <<Seg(<<>>, "import_name"), Seg(<<"|">>, "job_id")>>
tBadKey == <<Seg(<<>>, "module")>>

\* (PYIMPORT_HOST, PYIMPORT_PORT)
NetChoices ==
    { <<None, None>>, <<Some(sHost), None>>, <<None, Some(sPort)>>,
      <<Some(sHost), Some(sPort)>>, <<Some(sHost), Some(sBadPort)>> }

\* (PBS_JOBID, PYIMPORT_MSGFORMAT)
FormatChoices ==
    { <<None, None>>, <<Some(sJob), None>>, <<None, Some(tCustom)>>, <<Some(sJob), Some(tBadKey)>> }

HandlerChoices == { None, Some(sMixedCase), Some(sSrvFirst), Some(sUnknown) }

LibChoices == { None, Some(<<>>), Some(sLibAB) }

\* The file at the path the module resolves, before the process starts:
\* present and writable, present and read-only, absent in a writable directory,
\* absent with a umask that clears the write bits, absent and not creatable.
FsKinds == {"exists_rw", "exists_ro", "absent_ok", "absent_umask_ro", "absent_nocreate"}

\* (PYIMPORT_LOGFILE, PROJECTS_HOME, isdir(PROJECTS_HOME/LOG_SUBDIR), SINGULARITY_CONTAINER, file)
FileChoices ==
    { <<Some(sExplicit), h, h # None, Some(sContainer), k>> : h \in {None, Some(sHome)}, k \in FsKinds }
    \cup { <<None, None, FALSE, Some(sContainer), "absent_ok">>,
           <<None, Some(sHome), FALSE, Some(sContainer), "absent_ok">>,
           <<None, Some(sHome), TRUE, None, "absent_ok">> }
    \cup { <<None, Some(sHome), TRUE, Some(sContainer), k>> : k \in FsKinds }

Environments ==
    { [PYIMPORT_HOST |-> n[1], PYIMPORT_PORT |-> n[2],
       PYIMPORT_HANDLERS |-> h, PYIMPORT_LIBLIST |-> l,
       PBS_JOBID |-> m[1], PYIMPORT_MSGFORMAT |-> m[2],
       PYIMPORT_LOGFILE |-> f[1], PROJECTS_HOME |-> f[2], PYIMPORT_LOG_SUBDIR |-> None,
       isdir |-> f[3], SINGULARITY_CONTAINER |-> f[4], file |-> f[5]] :
      n \in NetChoices, h \in HandlerChoices, l \in LibChoices, m \in FormatChoices, f \in FileChoices }

\* os.environ.get(name, default)
Get(v, default) == IF v = None THEN default ELSE v[1]

(* ------------------------------------------------- module-level globals *)

HOST == env.PYIMPORT_HOST
PORT == env.PYIMPORT_PORT

HANDLERS == Split(Lower(Get(env.PYIMPORT_HANDLERS, sFile)), sComma)

LIBLIST == Get(env.PYIMPORT_LIBLIST, <<>>)
MODULES_TO_LOG == Split(LIBLIST, sComma)

JOBID == env.PBS_JOBID
DEFAULT_FORMAT ==
    <<Seg(<<"u","s","e","r",":">>, "username"), Seg(<<" ","i","m","p","o","r","t",":">>, "import_name")>>
    \o (IF JOBID # None THEN <<Seg(<<" ","j","o","b",":">>, "job_id")>> ELSE <<>>)
MSG_FORMAT == Get(env.PYIMPORT_MSGFORMAT, DEFAULT_FORMAT)

PROJECTS_HOME == env.PROJECTS_HOME
LOG_SUBDIR == Some(Get(env.PYIMPORT_LOG_SUBDIR, <<"d","a","t","o","o","l","s","/","l","o","g","s">>))
\* the location taken without the os.path.isdir check
LOG_LOCATION_Unchecked ==
    IF PROJECTS_HOME # None /\ LOG_SUBDIR # None
    THEN Some(PROJECTS_HOME[1] \o <<"/">> \o LOG_SUBDIR[1])
    ELSE None

LOG_LOCATION ==
    IF PROJECTS_HOME # None /\ LOG_SUBDIR # None
    THEN LET loc == PROJECTS_HOME[1] \o <<"/">> \o LOG_SUBDIR[1]
         IN  IF env.isdir THEN Some(loc) ELSE None
    ELSE None

USERNAME == <<"u">>
DATE == <<"2","0","2","4","0","1","3","1">>
CONTAINER == env.SINGULARITY_CONTAINER

\* line 71
DefaultLogfile == LOG_LOCATION[1] \o <<"/">> \o CONTAINER[1] \o <<"-">> \o USERNAME \o <<"-">> \o DATE \o <<".","l","o","g">>

(* ------------------------------------------------------ the file system *)

\* os.path.exists(p)
Exists(p, made) == env.file \in {"exists_rw", "exists_ro"} \/ p \in made

\* os.access(p, os.W_OK)
Writable(p, made) ==
    IF p \in made THEN env.file = "absent_ok" ELSE env.file = "exists_rw"

\* whether open(p, 'a') succeeds; it creates the file when it is absent
CanOpenAppend(p, made) ==
    IF Exists(p, made) THEN Writable(p, made) ELSE env.file \in {"absent_ok", "absent_umask_ro"}

(* ------------------------------------------------------------ messages *)

\* the keyword arguments of MSG_FORMAT.format(...); str(None) is 'None'
FieldValue(field, import_name) ==
    CASE field = "" -> Some(<<>>)
      [] field = "import_name" -> Some(import_name)
      [] field = "username" -> Some(USERNAME)
      [] field = "job_id" -> Some(IF JOBID = None THEN sNone ELSE JOBID[1])
      [] OTHER -> None

\* MSG_FORMAT.format(import_name=..., username=USERNAME, job_id=JOBID):
\* Some(text), or None for the KeyError of an unknown field
RECURSIVE Format(_, _)
Format(template, import_name) ==
    IF template = <<>> THEN Some(<<>>)
    ELSE LET v == FieldValue(Head(template).field, import_name)
             rest == Format(Tail(template), import_name)
         IN  IF v = None \/ rest = None THEN None
             ELSE Some(Head(template).lit \o v[1] \o rest[1])

\* a logger that drops a message a handler has emitted before
InfoDedup(o, message) ==
    [i \in DOMAIN o |-> IF message \in Range(o[i]) THEN o[i] ELSE Append(o[i], message)]

\* Logger.info(message): every handler of the logger emits the record
Info(o, message) == [i \in DOMAIN o |-> Append(o[i], message)]

(* ------------------------------------------------------------ handlers *)

StreamHandler == [kind |-> "StreamHandler", filename |-> None, address |-> None]
FileHandler(filename) == [kind |-> "FileHandler", filename |-> Some(filename), address |-> None]
DatagramHandler(host, port) == [kind |-> "DatagramHandler", filename |-> None, address |-> Some(<<host, port>>)]

\* One pass of the loop body of add_handlers for the name h (lines 94-102):
\* [handler |-> Some(handler) or None (handler is False), raised |-> BOOLEAN].
\* FileHandler opens its file at once and int(PORT) parses the port: both can raise.
NewHandler(h, logfile, made) ==
    CASE h = sStderr -> [handler |-> Some(StreamHandler), raised |-> FALSE]
      [] h = sFile ->
            IF logfile # None
            THEN IF CanOpenAppend(logfile[1], made)
                 THEN [handler |-> Some(FileHandler(logfile[1])), raised |-> FALSE]
                 ELSE [handler |-> None, raised |-> TRUE]
            ELSE [handler |-> None, raised |-> FALSE]
      [] h = sServer ->
            IF HOST # None /\ PORT # None
            THEN IF ParseInt(PORT[1]) # None
                 THEN [handler |-> Some(DatagramHandler(HOST[1], ParseInt(PORT[1])[1])), raised |-> FALSE]
                 ELSE [handler |-> None, raised |-> TRUE]
            ELSE [handler |-> None, raised |-> FALSE]
      [] OTHER -> [handler |-> None, raised |-> FALSE]

\* The loop of add_handlers (lines 93-106) over the names hs, the logger already holding `attached`:
\* [attached |-> the logger's handlers afterwards, raised |-> whether the loop raised]
RECURSIVE add_handlers_loop(_, _, _, _)
add_handlers_loop(hs, attached, logfile, made) ==
    IF hs = <<>> THEN [attached |-> attached, raised |-> FALSE]
    ELSE LET n == NewHandler(Head(hs), logfile, made)
         IN  IF n.raised THEN [attached |-> attached, raised |-> TRUE]
             ELSE add_handlers_loop(Tail(hs),
                              IF n.handler # None THEN Append(attached, n.handler[1]) ELSE attached,
                              logfile, made)

\* add_handlers made idempotent: a logger that has handlers gets no more
add_handlers_once(logger_handlers) ==
    IF logger_handlers # <<>>
    THEN [attached |-> logger_handlers, raised |-> FALSE]
    ELSE add_handlers_loop(HANDLERS, logger_handlers, LOGFILE, created)

\* add_handlers(logger, formatter) (lines 92-107) on the shared logger
add_handlers(logger_handlers) == add_handlers_loop(HANDLERS, logger_handlers, LOGFILE, created)

\* the files FileHandler's open(filename, 'a') creates
FilesOpened(hs, made) ==
    { h.filename[1] : h \in { x \in Range(hs) : x.kind = "FileHandler" /\ ~Exists(x.filename[1], made) } }

(* ------------------------------------------------------------- actions *)

Init ==
    /\ env \in Environments
    /\ pc = "start"
    /\ LOGFILE = None
    /\ created = {}
    /\ handlers = <<>>
    /\ out = <<>>
    /\ meta_path = <<>>
    /\ nobs = 0
    /\ calls = 0
    /\ last = [fullname |-> <<>>, path |-> None, ret |-> Some("no call yet")]

\* lines 68-71: the explicit path, else the default one, else none
LogfileCandidate ==
    IF env.PYIMPORT_LOGFILE # None THEN env.PYIMPORT_LOGFILE
    ELSE IF LOG_LOCATION # None /\ CONTAINER # None THEN Some(DefaultLogfile)
    ELSE None

\* The module-level code up to the class statement (lines 34-75).
LoadModule ==
    /\ pc = "start"
    /\ LET cand == LogfileCandidate
       IN  IF cand # None /\ ~Exists(cand[1], created)
           THEN IF CanOpenAppend(cand[1], created)
                THEN /\ created' = created \cup {cand[1]}
                     /\ LOGFILE' = IF ~Writable(cand[1], created \cup {cand[1]}) THEN None ELSE cand
                     /\ pc' = "configured"
                ELSE /\ created' = created
                     /\ LOGFILE' = cand
                     /\ pc' = "raised"
           ELSE /\ created' = created
                /\ LOGFILE' = cand
                /\ pc' = "configured"
    /\ UNCHANGED <<env, handlers, out, meta_path, nobs, calls, last>>

\* __init__ without its logger.info(message)
ImportLoggerSilent ==
    LET r == add_handlers(handlers)
        grown == [i \in DOMAIN r.attached |-> IF i \in DOMAIN out THEN out[i] ELSE <<>>]
    IN  /\ handlers' = r.attached
        /\ created' = created \cup FilesOpened(r.attached, created)
        /\ out' = grown
        /\ pc' = IF r.raised \/ Format(MSG_FORMAT, sPython) = None THEN "raised" ELSE "constructed"
        /\ nobs' = IF r.raised \/ Format(MSG_FORMAT, sPython) = None THEN nobs ELSE nobs + 1
        /\ UNCHANGED <<env, LOGFILE, meta_path, calls, last>>

\* ImportLogger.__init__ (lines 80-90), add_handlers included.
ImportLogger ==
    LET r == add_handlers(handlers)
        grown == [i \in DOMAIN r.attached |-> IF i \in DOMAIN out THEN out[i] ELSE <<>>]
        message == Format(MSG_FORMAT, sPython)
    IN  /\ handlers' = r.attached
        /\ created' = created \cup FilesOpened(r.attached, created)
        /\ IF r.raised \/ message = None
           THEN /\ out' = grown
                /\ pc' = "raised"
                /\ nobs' = nobs
           ELSE /\ out' = Info(grown, message[1])
                /\ pc' = "constructed"
                /\ nobs' = nobs + 1
        /\ UNCHANGED <<env, LOGFILE, meta_path, calls, last>>

\* line 127, its argument: ImportLogger()
Construct ==
    /\ pc = "configured"
    /\ ImportLogger

\* line 127: sys.meta_path.insert(0, <the new ImportLogger>)
Register ==
    /\ pc = "constructed"
    /\ meta_path' = <<nobs>> \o meta_path
    /\ pc' = "registered"
    /\ UNCHANGED <<env, LOGFILE, created, handlers, out, nobs, calls, last>>

ModuleNames == { <<>>, <<"a">>, <<"a","b">> }
Paths == { None, Some(<<>>), Some(<<sHome>>) }

\* the condition without the watch-list test
ShouldLogAnyName(fullname, path) == path = None

\* the condition without the 'path is None' test
ShouldLogAnyPath(fullname, path) == fullname \in Range(MODULES_TO_LOG)

\* the condition of lines 111-112
ShouldLog(fullname, path) == path = None /\ fullname \in Range(MODULES_TO_LOG)

\* line 120
FindSpecResult(fullname, path) == None

\* find_spec / find_module (lines 110-123) called by the import machinery on a
\* registered ImportLogger; every instance logs through the one shared logger.
find_spec(fullname, path) ==
    /\ pc = "registered"
    /\ meta_path # <<>>
    /\ calls < MaxCalls
    /\ calls' = calls + 1
    /\ LET message == Format(MSG_FORMAT, fullname)
       IN  IF ShouldLog(fullname, path)
           THEN IF message = None
                THEN /\ out' = out
                     /\ pc' = "raised"
                     /\ last' = [fullname |-> fullname, path |-> path, ret |-> last.ret]
                ELSE /\ out' = Info(out, message[1])
                     /\ pc' = pc
                     /\ last' = [fullname |-> fullname, path |-> path, ret |-> FindSpecResult(fullname, path)]
           ELSE /\ out' = out
                /\ pc' = pc
                /\ last' = [fullname |-> fullname, path |-> path, ret |-> FindSpecResult(fullname, path)]
    /\ UNCHANGED <<env, LOGFILE, created, handlers, meta_path, nobs>>

Hook == \E fullname \in ModuleNames, path \in Paths : find_spec(fullname, path)

\* A further ImportLogger() in the same process (the module run again).
ConstructAgain ==
    /\ pc = "registered"
    /\ nobs < MaxObservers
    /\ ImportLogger

Next == LoadModule \/ Construct \/ Register \/ Hook

Spec == Init /\ [][Next]_vars

NextMulti == LoadModule \/ Construct \/ Register \/ Hook \/ ConstructAgain

SpecMulti == Init /\ [][NextMulti]_vars

(* -------------------------------------------------------------- claims *)

Constructed == pc \in {"constructed", "registered"}

\* The text str.format gives for the templates of FormatChoices, written out.
ExpectedText(name) ==
    IF env.PYIMPORT_MSGFORMAT = None
    THEN <<"u","s","e","r",":","u"," ","i","m","p","o","r","t",":">> \o name
         \o (IF env.PBS_JOBID = None THEN <<>> ELSE <<" ","j","o","b",":">> \o env.PBS_JOBID[1])
    ELSE name \o <<"|">> \o (IF env.PBS_JOBID = None THEN <<"N","o","n","e">> ELSE env.PBS_JOBID[1])

StartupText == ExpectedText(<<"p","y","t","h","o","n">>)

\* The sink names PYIMPORT_HANDLERS asks for, in each of HandlerChoices, read off by hand.
RequestedSinks ==
    CASE env.PYIMPORT_HANDLERS = None -> <<"file">>
      [] env.PYIMPORT_HANDLERS = Some(sMixedCase) -> <<"stderr", "file">>
      [] env.PYIMPORT_HANDLERS = Some(sSrvFirst) -> <<"server", "stderr">>
      [] env.PYIMPORT_HANDLERS = Some(sUnknown) -> <<"file", "tty", "server">>

\* The sinks the configuration determines for one construction, as handler kinds.
RECURSIVE SinksFor(_)
SinksFor(names) ==
    IF names = <<>> THEN <<>>
    ELSE (CASE Head(names) = "stderr" -> <<"StreamHandler">>
            [] Head(names) = "file" -> IF LOGFILE # None THEN <<"FileHandler">> ELSE <<>>
            [] Head(names) = "server" ->
                 IF env.PYIMPORT_HOST # None /\ env.PYIMPORT_PORT # None
                 THEN <<"DatagramHandler">> ELSE <<>>
            [] OTHER -> <<>>)
         \o SinksFor(Tail(names))

ExpectedSinks == SinksFor(RequestedSinks)

Kinds(hs) == [i \in DOMAIN hs |-> hs[i].kind]

HookStep == calls' = calls + 1

\* C1: every hook call with path None for a name of the watch-list appends exactly one
\* message, the template rendered with that name, to every handler of the logger,
\* whatever was logged before (no deduplication).
C1_WatchedTopLevelCallEmitsOncePerSink ==
    [][(HookStep /\ last'.path = None /\ last'.fullname \in Range(MODULES_TO_LOG))
         => /\ DOMAIN out' = DOMAIN handlers
            /\ \A i \in DOMAIN handlers : out'[i] = Append(out[i], ExpectedText(last'.fullname))]_vars

C1_Witness ==
    /\ calls = 2
    /\ Len(handlers) >= 2
    /\ last.fullname = <<"a">> /\ last.path = None
    /\ \A i \in DOMAIN handlers :
         out[i] = <<StartupText, ExpectedText(<<"a">>), ExpectedText(<<"a">>)>>

C3_SubmoduleCallNeverEmits ==
    [][(HookStep /\ last'.path # None) => out' = out]_vars

C3_Witness ==
    /\ calls >= 1
    /\ handlers # <<>>
    /\ last.fullname = <<"a">> /\ last.fullname \in Range(MODULES_TO_LOG)
    /\ last.path = Some(<<>>)
    /\ \A i \in DOMAIN handlers : out[i] = <<StartupText>>

\* the configuration apart from the log file is valid
RestValid ==
    /\ env.PYIMPORT_MSGFORMAT # Some(tBadKey)
    /\ env.PYIMPORT_PORT # Some(sBadPort)

\* C4: with an explicit PYIMPORT_LOGFILE that is not writable (existing or not), once the
\* module code has run LOGFILE is None, nothing has raised, no FileHandler is attached,
\* and a completed construction has attached the other requested sinks, each holding
\* the startup message.
C4_UnwritableExplicitLogfileFailsSoft ==
    (/\ env.PYIMPORT_LOGFILE # None
     /\ env.file \in {"exists_ro", "absent_umask_ro", "absent_nocreate"}
     /\ RestValid
     /\ pc # "start")
    => /\ LOGFILE = None
       /\ pc # "raised"
       /\ \A i \in DOMAIN handlers : handlers[i].kind # "FileHandler"
       /\ Constructed =>
            /\ Kinds(handlers) = ExpectedSinks
            /\ \A i \in DOMAIN handlers : Len(out[i]) >= 1

\* C5: after a completed construction the logger's handlers are exactly the sinks the
\* configuration determines, in the order requested: a StreamHandler for 'stderr', a
\* FileHandler on LOGFILE for 'file' iff LOGFILE is not None, a DatagramHandler to
\* (HOST, PORT) for 'server' iff both are set, nothing for any other name; names are
\* compared case-insensitively.
C5_SinksDeterminedByConfiguration ==
    Constructed =>
        /\ Kinds(handlers) = ExpectedSinks
        /\ \A i \in DOMAIN handlers :
             /\ handlers[i].kind = "FileHandler" => handlers[i].filename = LOGFILE
             /\ handlers[i].kind = "DatagramHandler" =>
                  /\ env.PYIMPORT_HOST = Some(<<"h">>) /\ env.PYIMPORT_PORT = Some(<<"5","1","4">>)
                  /\ handlers[i].address = Some(<< <<"h">>, 514 >>)
             /\ handlers[i].kind = "StreamHandler" =>
                  (handlers[i].filename = None /\ handlers[i].address = None)

C5_Witness ==
    /\ pc = "constructed"
    /\ env.PYIMPORT_HANDLERS = Some(sUnknown)
    /\ env.PYIMPORT_HOST # None /\ env.PYIMPORT_PORT = None
    /\ LOGFILE # None
    /\ Kinds(handlers) = <<"FileHandler">>

\* C6: with 'server' requested, PYIMPORT_HOST set and PYIMPORT_PORT set to a string that
\* is no integer, construction does not raise, no DatagramHandler is attached and the
\* other requested sinks are.
C6_InvalidPortDisablesServerSink ==
    (/\ env.PYIMPORT_HANDLERS \in {Some(sSrvFirst), Some(sUnknown)}
     /\ env.PYIMPORT_HOST # None
     /\ env.PYIMPORT_PORT = Some(sBadPort)
     /\ env.PYIMPORT_MSGFORMAT # Some(tBadKey)
     /\ env.file \in {"exists_rw", "absent_ok"}
     /\ pc \notin {"start", "configured"})
    => /\ pc # "raised"
       /\ \A i \in DOMAIN handlers : handlers[i].kind # "DatagramHandler"
       /\ Kinds(handlers) = SinksFor([i \in DOMAIN RequestedSinks |->
                                        IF RequestedSinks[i] = "server" THEN "none" ELSE RequestedSinks[i]])

\* C7: when the one construction of the script completes every handler holds exactly
\* the startup message (import name "python"), nothing is registered in sys.meta_path
\* and no hook call has been made; afterwards the startup message stays the first
\* message of every handler, and hook calls happen only with the observer registered.
C7_StartupMessageBeforeAnyHook ==
    /\ Constructed =>
         /\ \A i \in DOMAIN handlers : Len(out[i]) >= 1 /\ out[i][1] = StartupText
         /\ calls = 0 => \A i \in DOMAIN handlers : out[i] = <<StartupText>>
         /\ pc = "constructed" => (meta_path = <<>> /\ calls = 0)
    /\ calls > 0 => meta_path # <<>>
    /\ ~Constructed => (calls = 0 /\ meta_path = <<>>)

C7_Witness ==
    /\ pc = "constructed"
    /\ Len(handlers) >= 2
    /\ meta_path = <<>> /\ calls = 0
    /\ \A i \in DOMAIN handlers : out[i] = <<StartupText>>

\* C8: with PYIMPORT_LIBLIST unset or empty every handler holds the startup message and
\* nothing else, whatever hook calls have been made.
C8_EmptyWatchListOnlyStartup ==
    (env.PYIMPORT_LIBLIST \in {None, Some(<<>>)} /\ Constructed)
    => \A i \in DOMAIN handlers : out[i] = <<StartupText>>

\* <PROJECTS_HOME>/datools/logs/<container>-<user>-<date>.log for the values of the model
ExpectedDefaultPath ==
    <<"/","p","/","d","a","t","o","o","l","s","/","l","o","g","s","/",
      "c","-","u","-","2","0","2","4","0","1","3","1",".","l","o","g">>

DefaultConditions ==
    /\ env.PROJECTS_HOME # None
    /\ env.isdir
    /\ env.SINGULARITY_CONTAINER # None

\* what C9 says in every case but the 'if and only if' of the default path
C9_Rest ==
    /\ (env.PYIMPORT_LOGFILE = None /\ ~DefaultConditions) =>
         /\ LOGFILE = None
         /\ created = {}
         /\ \A i \in DOMAIN handlers : handlers[i].kind # "FileHandler"
    /\ env.PYIMPORT_LOGFILE # None =>
         /\ LOGFILE \in {None, env.PYIMPORT_LOGFILE}
         /\ ExpectedDefaultPath \notin created
         /\ \A i \in DOMAIN handlers : handlers[i].filename # Some(ExpectedDefaultPath)

\* C9 as claimed: without PYIMPORT_LOGFILE, once the module code has run, LOGFILE is the
\* default path iff PROJECTS_HOME is set, the log directory exists and
\* SINGULARITY_CONTAINER is set; otherwise no path, no file sink, no file created; an
\* explicit path excludes the default one.
C9_DefaultPathIffConditions ==
    pc # "start" =>
        /\ env.PYIMPORT_LOGFILE = None => (LOGFILE = Some(ExpectedDefaultPath) <=> DefaultConditions)
        /\ C9_Rest

\* C9 amended: the default path is the resolved one iff the three conditions hold,
\* except when the module had to create the file and the new file is not writable:
\* then LOGFILE is None.
C9_DefaultPathIffConditionsAndWritable ==
    pc # "start" =>
        /\ env.PYIMPORT_LOGFILE = None =>
             (LOGFILE = Some(ExpectedDefaultPath)
                <=> (DefaultConditions /\ env.file # "absent_umask_ro"))
        /\ C9_Rest

C9_Witness ==
    /\ pc = "constructed"
    /\ env.PYIMPORT_LOGFILE = None
    /\ DefaultConditions
    /\ LOGFILE = Some(ExpectedDefaultPath)
    /\ ExpectedDefaultPath \in created
    /\ \E i \in DOMAIN handlers : handlers[i] = FileHandler(ExpectedDefaultPath)

\* the lines written to the destination of the handler d
RECURSIVE LinesUpTo(_, _, _, _)
LinesUpTo(d, hs, o, n) ==
    IF n = 0 THEN 0
    ELSE LinesUpTo(d, hs, o, n - 1) + (IF hs[n] = d THEN Len(o[n]) ELSE 0)
Lines(d, hs, o) == LinesUpTo(d, hs, o, Len(hs))

Copies(d, hs) == Cardinality({i \in DOMAIN hs : hs[i] = d})

RECURSIVE Repeat(_, _)
Repeat(s, n) == IF n = 0 THEN <<>> ELSE Repeat(s, n - 1) \o s

\* C10: after n completed constructions the shared logger holds n copies of the sinks the
\* configuration determines; a watched top-level hook call then writes n lines to the
\* destination of each sink, and each construction writes its startup message once per
\* copy attached, the new one included.
C10_ConstructionNotIdempotent ==
    /\ [](Constructed => Kinds(handlers) = Repeat(ExpectedSinks, nobs))
    /\ [][(HookStep /\ last'.path = None /\ last'.fullname \in Range(MODULES_TO_LOG))
            => \A d \in Range(handlers) :
                 /\ Copies(d, handlers) = nobs * Copies(d.kind, ExpectedSinks)
                 /\ Lines(d, handlers', out') = Lines(d, handlers, out) + Copies(d, handlers)]_vars
    /\ [][(nobs' = nobs + 1)
            => \A d \in Range(handlers') :
                 /\ Copies(d, handlers') = nobs' * Copies(d.kind, ExpectedSinks)
                 /\ Lines(d, handlers', out') = Lines(d, handlers, out) + Copies(d, handlers')]_vars

C10_Witness ==
    /\ nobs = 2
    /\ pc = "registered"
    /\ ExpectedSinks = <<"StreamHandler", "FileHandler">>
    /\ Len(handlers) = 4
    /\ last.fullname = <<"a">> /\ last.path = None
    /\ out[1] = <<StartupText, StartupText, ExpectedText(<<"a">>)>>
    /\ out[3] = <<StartupText, ExpectedText(<<"a">>)>>
    /\ Lines(StreamHandler, handlers, out) = 5

====
